---------------------------- MODULE Spec2Model ----------------------------
(***************************************************************************)
(* Model of package metadata (src/metadata/metadata.go): helpers that      *)
(* read, add and copy the labels and annotations of a v1.Object.           *)
(*                                                                         *)
(* Go strings are sequences of characters.  A Go map[string]string is a    *)
(* record [nil, kv]: nil tells a nil map from an allocated one, kv is the  *)
(* function from the keys present to their values.  Every object owns the  *)
(* maps in its two slots (no two objects share a map), and a copy is made  *)
(* between two different objects or with a nil object.  A range loop over  *)
(* a map visits its entries in an order the caller does not choose.        *)
(***************************************************************************)
EXTENDS Naturals, Sequences, FiniteSets

VARIABLES annotations,     \* ObjectMeta.Annotations of every object
          labels,          \* ObjectMeta.Labels of every object
          preAnnotations,  \* annotations as they were when the last call started
          preLabels,       \* labels as they were when the last call started
          last,            \* the last call: its arguments and what it returned
          calls            \* number of calls made so far

vars == <<annotations, labels, preAnnotations, preLabels, last, calls>>

---------------------------------------------------------------------------
(* Bounds of the model *)

\* Largest number of entries of a map passed as `entries`.
MaxEntries == 2
\* Largest number of entries a slot of the first object holds initially.
MaxInitEntries == 2
\* Largest number of entries a slot of the second object holds initially.
MaxPeerEntries == 1
\* How many times a bulk add may be issued again with the same arguments.
MaxRepeats == 1

\* The objects; NilObj is the nil v1.Object interface value.
Obj == {"o1", "o2"}
NilObj == "nil"
ObjOrNil == Obj \cup {NilObj}

\* Strings passed as key or prefix: "", "a", "ab", "b".
Strs == {<< >>, <<"a">>, <<"a", "b">>, <<"b">>}
\* Keys of the maps objects are built with and of the maps passed as
\* `entries`: "", "a", "ab".
MapKeys == {<< >>, <<"a">>, <<"a", "b">>}
\* Strings used as values.
Values == {<<"x">>, <<"y">>}

---------------------------------------------------------------------------
(* Go values *)

EmptyKV == [k \in {} |-> << >>]
NilMap == [nil |-> TRUE, kv |-> EmptyKV]
EmptyMap == [nil |-> FALSE, kv |-> EmptyKV]
MkMap(f) == [nil |-> FALSE, kv |-> f]
Keys(m) == DOMAIN m.kv
MapLen(m) == Cardinality(Keys(m))

NoError == ""
NilObjectError == "object cannot be nil"

\* Allocated maps over MapKeys with at most n entries.
MapsUpTo(n) ==
  { MkMap(f) : f \in UNION { [S -> Values] :
                             S \in { T \in SUBSET MapKeys : Cardinality(T) <= n } } }

\* The orders in which a range loop may visit the entries of map m.
Orders(m) ==
  LET n == MapLen(m)
  IN { o \in [1..n -> Keys(m)] : \A i, j \in 1..n : i # j => o[i] # o[j] }

---------------------------------------------------------------------------
(* package strings *)

HasPrefix(s, prefix) ==
  /\ Len(s) >= Len(prefix)
  /\ SubSeq(s, 1, Len(prefix)) = prefix

\* strings.Index: the offset of the first occurrence of old in s, or -1
\* (encoded as Len(s) + 1, no offset being that large).
NotFound(s) == Len(s) + 1
Index(s, old) ==
  IF Len(s) < Len(old) THEN NotFound(s)
  ELSE LET hits == { i \in 0..(Len(s) - Len(old)) :
                       SubSeq(s, i + 1, i + Len(old)) = old }
       IN IF hits = {} THEN NotFound(s)
          ELSE CHOOSE i \in hits : \A j \in hits : i <= j

\* strings.Replace(s, old, new, 1)
Replace(s, old, new) ==
  LET i == Index(s, old)
  IN IF i = NotFound(s) THEN s
     ELSE SubSeq(s, 1, i) \o new \o SubSeq(s, i + Len(old) + 1, Len(s))

---------------------------------------------------------------------------
(* Unexported helpers of metadata.go *)

\* Plausible slips of safeCopy: writing whether or not the key is present,
\* writing only when it is present, and appending to the value present.
safeCopyClobber(destination, key, val) ==
  MkMap([k \in Keys(destination) \cup {key} |->
           IF k = key THEN val ELSE destination.kv[k]])

safeCopyInverted(destination, key, val) ==
  IF key \in Keys(destination)
  THEN MkMap([k \in Keys(destination) |->
                IF k = key THEN val ELSE destination.kv[k]])
  ELSE destination

safeCopyAppend(destination, key, val) ==
  MkMap([k \in Keys(destination) \cup {key} |->
           IF k # key THEN destination.kv[k]
           ELSE IF key \in Keys(destination) THEN destination.kv[k] \o val
           ELSE val])

\* safeCopy: destination[key] = val unless key is already present.
safeCopy(destination, key, val) ==
  IF key \notin Keys(destination)
  THEN MkMap([k \in Keys(destination) \cup {key} |->
                IF k = key THEN val ELSE destination.kv[k]])
  ELSE destination

\* addEntries: safeCopy of every entry of source, visited in `order`.
RECURSIVE addEntriesFrom(_, _, _, _)
addEntriesFrom(source, destination, order, i) ==
  IF i > Len(order) THEN destination
  ELSE addEntriesFrom(source,
                      safeCopy(destination, order[i], source.kv[order[i]]),
                      order, i + 1)

addEntries(source, destination, order) ==
  addEntriesFrom(source, destination, order, 1)

\* A slip of filterByPrefix: the prefix looked for anywhere in the key.
filterByPrefixContains(entries, prefix) ==
  IF Len(prefix) = 0 THEN entries
  ELSE MkMap([key \in { k \in Keys(entries) : Index(k, prefix) # NotFound(k) } |->
                entries.kv[key]])

\* filterByPrefix: entries itself for the empty prefix (nil when entries is
\* nil), else a new map of the entries whose key starts with prefix.
filterByPrefix(entries, prefix) ==
  IF Len(prefix) = 0 THEN entries
  ELSE MkMap([key \in { k \in Keys(entries) : HasPrefix(k, prefix) } |->
                entries.kv[key]])

\* A slip of the renaming: the rest of the key after the prefix is lost.
newKeyDropRest(key, prefix, replacementPrefix) ==
  IF prefix # replacementPrefix THEN replacementPrefix ELSE key

\* newKey of copyWithNewPrefix: the key an entry of src is copied to.
newKey(key, prefix, replacementPrefix) ==
  IF prefix # replacementPrefix
  THEN Replace(key, prefix, replacementPrefix)
  ELSE key

\* A slip of the copy: safeCopy used for the write, as addEntries does.
copyEntryNoClobber(src, dest, prefix, replacementPrefix, key) ==
  IF HasPrefix(key, prefix)
  THEN safeCopy(dest, newKey(key, prefix, replacementPrefix), src.kv[key])
  ELSE dest

\* One iteration of the loop of copyWithNewPrefix, on the entry at `key`.
copyEntry(src, dest, prefix, replacementPrefix, key) ==
  IF HasPrefix(key, prefix)
  THEN LET nk == newKey(key, prefix, replacementPrefix)
       IN MkMap([k \in Keys(dest) \cup {nk} |->
                   IF k = nk THEN src.kv[key] ELSE dest.kv[k]])
  ELSE dest

RECURSIVE copyFrom(_, _, _, _, _, _)
copyFrom(src, dest, prefix, replacementPrefix, order, i) ==
  IF i > Len(order) THEN dest
  ELSE copyFrom(src,
                copyEntry(src, dest, prefix, replacementPrefix, order[i]),
                prefix, replacementPrefix, order, i + 1)

\* copyWithNewPrefix: the entries of src whose key starts with prefix are
\* written to dest under the renamed key, visited in `order`.
copyWithNewPrefix(src, dest, prefix, replacementPrefix, order) ==
  copyFrom(src, dest, prefix, replacementPrefix, order, 1)

---------------------------------------------------------------------------
(* Exported functions, as functions of the current metadata.  A result is a
   record of what the function returns and of the metadata it leaves. *)

\* A slip of the nil check of the prefix reads: nil returned with the error.
GetAnnotationsWithPrefixNilMap(obj, prefix) ==
  IF obj = NilObj
  THEN [map |-> NilMap, err |-> NilObjectError]
  ELSE [map |-> filterByPrefix(annotations[obj], prefix), err |-> NoError]

GetAnnotationsWithPrefix(obj, prefix) ==
  IF obj = NilObj
  THEN [map |-> EmptyMap, err |-> NilObjectError]
  ELSE [map |-> filterByPrefix(annotations[obj], prefix), err |-> NoError]

GetLabelsWithPrefix(obj, prefix) ==
  IF obj = NilObj
  THEN [map |-> EmptyMap, err |-> NilObjectError]
  ELSE [map |-> filterByPrefix(labels[obj], prefix), err |-> NoError]

HasAnnotation(object, key) ==
  LET r == GetAnnotationsWithPrefix(object, key)
  IN IF r.err # NoError \/ MapLen(r.map) = 0 THEN FALSE ELSE TRUE

HasAnnotationWithValue(object, key, value) ==
  LET r == GetAnnotationsWithPrefix(object, key)
  IN /\ r.err = NoError
     /\ \E k \in Keys(r.map) : r.map.kv[k] = value

HasLabel(object, key) ==
  LET r == GetLabelsWithPrefix(object, key)
  IN IF r.err # NoError \/ MapLen(r.map) = 0 THEN FALSE ELSE TRUE

HasLabelWithValue(object, key, value) ==
  LET r == GetLabelsWithPrefix(object, key)
  IN /\ r.err = NoError
     /\ \E k \in Keys(r.map) : r.map.kv[k] = value

\* AddAnnotations: meta is the annotations it leaves, err what it returns.
AddAnnotations(obj, entries, order) ==
  IF obj = NilObj
  THEN [meta |-> annotations, err |-> NilObjectError]
  ELSE LET slot == IF annotations[obj].nil THEN EmptyMap ELSE annotations[obj]
       IN [meta |-> [annotations EXCEPT ![obj] = addEntries(entries, slot, order)],
           err |-> NoError]

AddLabels(obj, entries, order) ==
  IF obj = NilObj
  THEN [meta |-> labels, err |-> NilObjectError]
  ELSE LET slot == IF labels[obj].nil THEN EmptyMap ELSE labels[obj]
       IN [meta |-> [labels EXCEPT ![obj] = addEntries(entries, slot, order)],
           err |-> NoError]

\* The one-entry map AddAnnotation and AddLabel build.
Single(key, value) == MkMap([k \in {key} |-> value])

\* AddAnnotation: the annotations it leaves (the error is dropped).
AddAnnotation(object, key, value) ==
  AddAnnotations(object, Single(key, value), <<key>>).meta

AddLabel(object, key, value) ==
  AddLabels(object, Single(key, value), <<key>>).meta

\* CopyLabelsByPrefix: meta is the labels it leaves; panicked tells that a
\* method was called on the nil interface value (a nil pointer dereference).
CopyLabelsByPrefix(src, dest, prefix, replacementPrefix, order) ==
  IF src = NilObj THEN [meta |-> labels, panicked |-> TRUE]
  ELSE IF labels[src].nil THEN [meta |-> labels, panicked |-> FALSE]
  ELSE IF dest = NilObj THEN [meta |-> labels, panicked |-> TRUE]
  ELSE LET slot == IF labels[dest].nil THEN EmptyMap ELSE labels[dest]
       IN [meta |-> [labels EXCEPT ![dest] =
                       copyWithNewPrefix(labels[src], slot, prefix,
                                         replacementPrefix, order)],
           panicked |-> FALSE]

CopyAnnotationsByPrefix(src, dest, prefix, replacementPrefix, order) ==
  IF src = NilObj THEN [meta |-> annotations, panicked |-> TRUE]
  ELSE IF annotations[src].nil THEN [meta |-> annotations, panicked |-> FALSE]
  ELSE IF dest = NilObj THEN [meta |-> annotations, panicked |-> TRUE]
  ELSE LET slot == IF annotations[dest].nil THEN EmptyMap ELSE annotations[dest]
       IN [meta |-> [annotations EXCEPT ![dest] =
                       copyWithNewPrefix(annotations[src], slot, prefix,
                                         replacementPrefix, order)],
           panicked |-> FALSE]

---------------------------------------------------------------------------
(* The state machine: objects are built with some metadata, then a caller
   calls one function; a bulk add may be issued again with the same
   arguments. *)

\* The record of a call; a field a function does not have keeps its default.
NoCall ==
  [op |-> "none", obj |-> NilObj, dest |-> NilObj,
   key |-> << >>, value |-> << >>, entries |-> NilMap,
   prefix |-> << >>, replacementPrefix |-> << >>,
   err |-> NoError, bool |-> FALSE, map |-> NilMap, panicked |-> FALSE]

\* Maps passed as `entries`: nil, or allocated with at most MaxEntries entries.
EntryMaps == {NilMap} \cup MapsUpTo(MaxEntries)

\* What a slot may hold when an object is built.
SlotMaps(n) == {NilMap} \cup MapsUpTo(n)
\* The slots of the kind the built objects do not differ in.
Bystander == [o \in Obj |-> IF o = "o1" THEN Single(<<"a">>, <<"x">>) ELSE NilMap]

\* Source and destination of a copy: different objects, or nil.
CopyPairs == { p \in ObjOrNil \X ObjOrNil : p[1] # p[2] \/ p[1] = NilObj }

Init ==
  /\ \E focus \in BOOLEAN, first \in SlotMaps(MaxInitEntries),
        peer \in SlotMaps(MaxPeerEntries) :
       LET busy == [o \in Obj |-> IF o = "o1" THEN first ELSE peer]
       IN /\ annotations = IF focus THEN busy ELSE Bystander
          /\ labels = IF focus THEN Bystander ELSE busy
  /\ preAnnotations = annotations
  /\ preLabels = labels
  /\ last = NoCall
  /\ calls = 0

\* The arguments a bulk add may be called with: any for a first call, and
\* those of the last call when the same bulk add is issued again.
BulkArgs(op) ==
  IF calls = 0 THEN ObjOrNil \X EntryMaps
  ELSE IF calls <= MaxRepeats /\ last.op = op THEN {<<last.obj, last.entries>>}
  ELSE {}

\* A call returning: `result` records it, newA and newL are the metadata left.
Return(result, newA, newL) ==
  /\ annotations' = newA
  /\ labels' = newL
  /\ preAnnotations' = annotations
  /\ preLabels' = labels
  /\ last' = result
  /\ calls' = calls + 1

CallHasAnnotation ==
  /\ calls = 0
  /\ \E object \in ObjOrNil, key \in Strs :
       LET call == [NoCall EXCEPT !.op = "HasAnnotation", !.obj = object, !.key = key]
       IN Return([call EXCEPT !.bool = HasAnnotation(object, key)],
                 annotations, labels)

CallHasAnnotationWithValue ==
  /\ calls = 0
  /\ \E object \in ObjOrNil, key \in Strs, value \in Values :
       LET call == [NoCall EXCEPT !.op = "HasAnnotationWithValue", !.obj = object,
                                  !.key = key, !.value = value]
       IN Return([call EXCEPT !.bool = HasAnnotationWithValue(object, key, value)],
                 annotations, labels)

CallHasLabel ==
  /\ calls = 0
  /\ \E object \in ObjOrNil, key \in Strs :
       LET call == [NoCall EXCEPT !.op = "HasLabel", !.obj = object, !.key = key]
       IN Return([call EXCEPT !.bool = HasLabel(object, key)],
                 annotations, labels)

CallHasLabelWithValue ==
  /\ calls = 0
  /\ \E object \in ObjOrNil, key \in Strs, value \in Values :
       LET call == [NoCall EXCEPT !.op = "HasLabelWithValue", !.obj = object,
                                  !.key = key, !.value = value]
       IN Return([call EXCEPT !.bool = HasLabelWithValue(object, key, value)],
                 annotations, labels)

CallAddAnnotation ==
  /\ calls = 0
  /\ \E object \in ObjOrNil, key \in Strs, value \in Values :
       LET call == [NoCall EXCEPT !.op = "AddAnnotation", !.obj = object,
                                  !.key = key, !.value = value]
       IN Return(call, AddAnnotation(object, key, value), labels)

CallAddLabel ==
  /\ calls = 0
  /\ \E object \in ObjOrNil, key \in Strs, value \in Values :
       LET call == [NoCall EXCEPT !.op = "AddLabel", !.obj = object,
                                  !.key = key, !.value = value]
       IN Return(call, annotations, AddLabel(object, key, value))

CallAddAnnotations ==
  \E args \in BulkArgs("AddAnnotations") :
    \E order \in Orders(args[2]) :
      LET obj == args[1]
          entries == args[2]
          call == [NoCall EXCEPT !.op = "AddAnnotations", !.obj = obj,
                                 !.entries = entries]
          r == AddAnnotations(obj, entries, order)
      IN Return([call EXCEPT !.err = r.err], r.meta, labels)

CallAddLabels ==
  \E args \in BulkArgs("AddLabels") :
    \E order \in Orders(args[2]) :
      LET obj == args[1]
          entries == args[2]
          call == [NoCall EXCEPT !.op = "AddLabels", !.obj = obj,
                                 !.entries = entries]
          r == AddLabels(obj, entries, order)
      IN Return([call EXCEPT !.err = r.err], annotations, r.meta)

CallGetAnnotationsWithPrefix ==
  /\ calls = 0
  /\ \E obj \in ObjOrNil, prefix \in Strs :
       LET call == [NoCall EXCEPT !.op = "GetAnnotationsWithPrefix", !.obj = obj,
                                  !.prefix = prefix]
           r == GetAnnotationsWithPrefix(obj, prefix)
       IN Return([call EXCEPT !.map = r.map, !.err = r.err],
                 annotations, labels)

CallGetLabelsWithPrefix ==
  /\ calls = 0
  /\ \E obj \in ObjOrNil, prefix \in Strs :
       LET call == [NoCall EXCEPT !.op = "GetLabelsWithPrefix", !.obj = obj,
                                  !.prefix = prefix]
           r == GetLabelsWithPrefix(obj, prefix)
       IN Return([call EXCEPT !.map = r.map, !.err = r.err],
                 annotations, labels)

CallCopyLabelsByPrefix ==
  /\ calls = 0
  /\ \E pair \in CopyPairs, prefix \in Strs, replacementPrefix \in Strs :
       \E order \in Orders(IF pair[1] = NilObj THEN NilMap ELSE labels[pair[1]]) :
         LET call == [NoCall EXCEPT !.op = "CopyLabelsByPrefix", !.obj = pair[1],
                                    !.dest = pair[2], !.prefix = prefix,
                                    !.replacementPrefix = replacementPrefix]
             r == CopyLabelsByPrefix(pair[1], pair[2], prefix, replacementPrefix, order)
         IN Return([call EXCEPT !.panicked = r.panicked], annotations, r.meta)

CallCopyAnnotationsByPrefix ==
  /\ calls = 0
  /\ \E pair \in CopyPairs, prefix \in Strs, replacementPrefix \in Strs :
       \E order \in Orders(IF pair[1] = NilObj THEN NilMap ELSE annotations[pair[1]]) :
         LET call == [NoCall EXCEPT !.op = "CopyAnnotationsByPrefix", !.obj = pair[1],
                                    !.dest = pair[2], !.prefix = prefix,
                                    !.replacementPrefix = replacementPrefix]
             r == CopyAnnotationsByPrefix(pair[1], pair[2], prefix, replacementPrefix, order)
         IN Return([call EXCEPT !.panicked = r.panicked], r.meta, labels)

Next ==
  \/ CallHasAnnotation
  \/ CallHasAnnotationWithValue
  \/ CallHasLabel
  \/ CallHasLabelWithValue
  \/ CallAddAnnotation
  \/ CallAddLabel
  \/ CallAddAnnotations
  \/ CallAddLabels
  \/ CallGetAnnotationsWithPrefix
  \/ CallGetLabelsWithPrefix
  \/ CallCopyLabelsByPrefix
  \/ CallCopyAnnotationsByPrefix

Spec == Init /\ [][Next]_vars

---------------------------------------------------------------------------
(* Vocabulary of the properties *)

Kinds == {"annotations", "labels"}
Now(kind) == IF kind = "annotations" THEN annotations ELSE labels
Before(kind) == IF kind = "annotations" THEN preAnnotations ELSE preLabels
NothingChanged == annotations = preAnnotations /\ labels = preLabels

\* The operations of each kind, by what they are.
AddOneOp(kind) == IF kind = "annotations" THEN "AddAnnotation" ELSE "AddLabel"
AddManyOp(kind) == IF kind = "annotations" THEN "AddAnnotations" ELSE "AddLabels"
GetOp(kind) ==
  IF kind = "annotations" THEN "GetAnnotationsWithPrefix" ELSE "GetLabelsWithPrefix"
HasOp(kind) == IF kind = "annotations" THEN "HasAnnotation" ELSE "HasLabel"
HasValueOp(kind) ==
  IF kind = "annotations" THEN "HasAnnotationWithValue" ELSE "HasLabelWithValue"
CopyOp(kind) ==
  IF kind = "annotations" THEN "CopyAnnotationsByPrefix" ELSE "CopyLabelsByPrefix"

\* An absent slot counts as the empty map.
OrEmpty(m) == IF m.nil THEN EmptyMap ELSE m

\* Key k starts with prefix p; the key k is renamed to when p is replaced by r.
StartsWith(k, p) == Len(p) <= Len(k) /\ \A i \in 1..Len(p) : k[i] = p[i]
Renamed(k, p, r) == r \o SubSeq(k, Len(p) + 1, Len(k))

\* Every key the map `before` holds is in `after` with the same value.
Kept(before, after) ==
  \A k \in Keys(before) : k \in Keys(after) /\ after.kv[k] = before.kv[k]

---------------------------------------------------------------------------
(* Properties *)

\* C1 as stated: no call removes a key of a labels or annotations map or
\* changes the value at a key that was present (every insertion is
\* first-write-wins).
C1_NeverRemovesNorOverwrites ==
  \A kind \in Kinds, o \in Obj : Kept(Before(kind)[o], Now(kind)[o])

\* C1, amended: no call removes a key of a labels or annotations map, and the
\* value at a key that was present changes only in the destination of
\* CopyAnnotationsByPrefix / CopyLabelsByPrefix, where it becomes the value of
\* a source entry whose renamed key is that key; the add operations are
\* first-write-wins and the reads change nothing.
C1_NeverRemovesOnlyCopyOverwrites ==
  \A kind \in Kinds, o \in Obj :
    \A k \in Keys(Before(kind)[o]) :
      /\ k \in Keys(Now(kind)[o])
      /\ Now(kind)[o].kv[k] # Before(kind)[o].kv[k] =>
           /\ last.op = CopyOp(kind)
           /\ last.dest = o
           /\ last.obj \in Obj
           /\ \E sk \in Keys(Before(kind)[last.obj]) :
                /\ StartsWith(sk, last.prefix)
                /\ Renamed(sk, last.prefix, last.replacementPrefix) = k
                /\ Now(kind)[o].kv[k] = Before(kind)[last.obj].kv[sk]

\* C1's case: a bulk add whose entries hold a key the object already has,
\* with another value.
C1_Witness ==
  \E kind \in Kinds :
    /\ last.op = AddManyOp(kind)
    /\ last.obj \in Obj
    /\ \E k \in Keys(last.entries) \cap Keys(Before(kind)[last.obj]) :
         last.entries.kv[k] # Before(kind)[last.obj].kv[k]

\* C2 as stated: right after AddAnnotation(O, k, v) on an object O,
\* HasAnnotationWithValue(O, k, v) is true whatever O held before; the same for
\* AddLabel and HasLabelWithValue.
C2_AddThenHasValue ==
  /\ last.op = "AddAnnotation" /\ last.obj \in Obj =>
       HasAnnotationWithValue(last.obj, last.key, last.value)
  /\ last.op = "AddLabel" /\ last.obj \in Obj =>
       HasLabelWithValue(last.obj, last.key, last.value)

\* C2, amended: right after AddAnnotation(O, k, v) on a non-nil object O whose
\* annotations did not hold k with a value other than v (an absent slot
\* included), HasAnnotationWithValue(O, k, v) is true; the same for AddLabel
\* and HasLabelWithValue.
C2_AddThenHasValueUnlessTaken ==
  /\ ( /\ last.op = "AddAnnotation" /\ last.obj \in Obj
       /\ last.key \in Keys(preAnnotations[last.obj]) =>
            preAnnotations[last.obj].kv[last.key] = last.value )
     => HasAnnotationWithValue(last.obj, last.key, last.value)
  /\ ( /\ last.op = "AddLabel" /\ last.obj \in Obj
       /\ last.key \in Keys(preLabels[last.obj]) =>
            preLabels[last.obj].kv[last.key] = last.value )
     => HasLabelWithValue(last.obj, last.key, last.value)

\* C2's case: AddAnnotation on an object whose annotations slot was absent.
C2_Witness ==
  /\ last.op = "AddAnnotation"
  /\ last.obj \in Obj
  /\ preAnnotations[last.obj].nil
  /\ last.key \in Keys(annotations[last.obj])

\* C3: on a non-nil object whose slot holds D, AddAnnotations / AddLabels of M
\* returns no error and leaves a non-nil map that keeps every entry of D, holds
\* every key of M that is not in D with its value from M, holds no other key,
\* and has |D| + |M| - |keys common to D and M| entries.
C3_BulkAddMerges ==
  \A kind \in Kinds :
    last.op = AddManyOp(kind) /\ last.obj \in Obj =>
      LET D == Before(kind)[last.obj]
          M == last.entries
          R == Now(kind)[last.obj]
      IN /\ last.err = NoError
         /\ ~R.nil
         /\ Kept(D, R)
         /\ \A k \in Keys(M) \ Keys(D) : k \in Keys(R) /\ R.kv[k] = M.kv[k]
         /\ Keys(R) \subseteq Keys(D) \cup Keys(M)
         /\ MapLen(R) + Cardinality(Keys(D) \cap Keys(M)) = MapLen(D) + MapLen(M)

\* C3's case: a bulk add with a key the object already holds with another
\* value and a key it does not hold.
C3_Witness ==
  \E kind \in Kinds :
    /\ last.op = AddManyOp(kind)
    /\ last.obj \in Obj
    /\ \E k \in Keys(last.entries) \cap Keys(Before(kind)[last.obj]) :
         last.entries.kv[k] # Before(kind)[last.obj].kv[k]
    /\ Keys(last.entries) \ Keys(Before(kind)[last.obj]) # {}
    /\ calls = 1

\* C4: with a nil object, AddAnnotations, AddLabels, GetAnnotationsWithPrefix
\* and GetLabelsWithPrefix return the error "object cannot be nil"; the prefix
\* reads return an empty non-nil map with it; no metadata changes.
C4_NilObjectError ==
  \A kind \in Kinds :
    last.op \in {AddManyOp(kind), GetOp(kind)} /\ last.obj = NilObj =>
      /\ last.err = "object cannot be nil"
      /\ last.op = GetOp(kind) => ~last.map.nil /\ Keys(last.map) = {}
      /\ NothingChanged

\* C4's case: a prefix read of a nil object, while some object has metadata.
C4_Witness ==
  /\ last.op = "GetAnnotationsWithPrefix"
  /\ last.obj = NilObj
  /\ last.prefix # << >>
  /\ \E o \in Obj : Keys(annotations[o]) # {}

\* C5 as stated: with a nil object the Has* queries return false, and
\* AddAnnotation, AddLabel and the two copies (nil src or nil dest) complete as
\* a no-op: no fault is raised and no metadata changes.
C5_NilObjectSwallowed ==
  \A kind \in Kinds :
    /\ last.op \in {HasOp(kind), HasValueOp(kind)} /\ last.obj = NilObj =>
         last.bool = FALSE /\ ~last.panicked /\ NothingChanged
    /\ last.op = AddOneOp(kind) /\ last.obj = NilObj =>
         ~last.panicked /\ NothingChanged
    /\ last.op = CopyOp(kind) /\ (last.obj = NilObj \/ last.dest = NilObj) =>
         ~last.panicked /\ NothingChanged

\* C6 as stated: on a non-nil object, for every prefix and every state of the
\* slot, the prefix reads return no error and a non-nil map holding exactly the
\* slot's entries whose key starts with the prefix.
C6_PrefixReadNeverNil ==
  \A kind \in Kinds :
    last.op = GetOp(kind) /\ last.obj \in Obj =>
      LET slot == Now(kind)[last.obj]
      IN /\ last.err = NoError
         /\ ~last.map.nil
         /\ Keys(last.map) = { k \in Keys(slot) : StartsWith(k, last.prefix) }
         /\ \A k \in Keys(last.map) : last.map.kv[k] = slot.kv[k]

\* C6, amended: on a non-nil object the prefix reads return no error and a map
\* holding exactly the slot's entries whose key starts with the prefix, values
\* unchanged; the map is non-nil, except that the nil map is returned when the
\* prefix is empty and the slot is absent.
C6_PrefixReadNilOnlyForAbsentSlot ==
  \A kind \in Kinds :
    last.op = GetOp(kind) /\ last.obj \in Obj =>
      LET slot == Now(kind)[last.obj]
      IN /\ last.err = NoError
         /\ last.map.nil <=> (last.prefix = << >> /\ slot.nil)
         /\ Keys(last.map) = { k \in Keys(slot) : StartsWith(k, last.prefix) }
         /\ \A k \in Keys(last.map) : last.map.kv[k] = slot.kv[k]

\* C6's case: a read with a non-empty prefix that some keys of the slot start
\* with and others do not.
C6_Witness ==
  \E kind \in Kinds :
    /\ last.op = GetOp(kind)
    /\ last.obj \in Obj
    /\ last.prefix # << >>
    /\ Keys(last.map) # {}
    /\ Keys(last.map) # Keys(Now(kind)[last.obj])

\* C7 as stated: HasAnnotation(object, key) is true exactly when the object is
\* non-nil and its annotations hold an entry whose key equals key; the same for
\* HasLabel.
C7_HasIsExactMatch ==
  \A kind \in Kinds :
    last.op = HasOp(kind) =>
      last.bool = (last.obj \in Obj /\ last.key \in Keys(Now(kind)[last.obj]))

\* C8: for distinct non-nil src and dest the copy leaves src as it was; when
\* src's slot is absent dest is as it was; otherwise dest's slot is its previous
\* content overridden by (replacementPrefix + rest, v) for every entry
\* (prefix + rest, v) of src.
C8_CopyRenamesAndOverrides ==
  \A kind \in Kinds :
    last.op = CopyOp(kind) /\ last.obj \in Obj /\ last.dest \in Obj =>
      LET S == Before(kind)[last.obj]
          D == Before(kind)[last.dest]
          R == Now(kind)[last.dest]
          moved == { k \in Keys(S) : StartsWith(k, last.prefix) }
          target(k) == Renamed(k, last.prefix, last.replacementPrefix)
      IN /\ ~last.panicked
         /\ Now(kind)[last.obj] = S
         /\ \A other \in Kinds \ {kind} : Now(other) = Before(other)
         /\ S.nil => R = D
         /\ ~S.nil =>
              /\ ~R.nil
              /\ Keys(R) = Keys(D) \cup { target(k) : k \in moved }
              /\ \A k \in moved : R.kv[target(k)] = S.kv[k]
              /\ \A k \in Keys(D) \ { target(m) : m \in moved } : R.kv[k] = D.kv[k]
              /\ last.prefix = last.replacementPrefix =>
                   \A k \in moved : R.kv[k] = S.kv[k]

\* C8's case: a renaming copy onto a dest that holds a renamed key with
\* another value, from a src with an entry that is not copied.
C8_Witness ==
  \E kind \in Kinds :
    /\ last.op = CopyOp(kind)
    /\ last.obj \in Obj /\ last.dest \in Obj
    /\ last.prefix # last.replacementPrefix
    /\ \E k \in Keys(Before(kind)[last.obj]) :
         LET nk == Renamed(k, last.prefix, last.replacementPrefix)
         IN /\ StartsWith(k, last.prefix)
            /\ nk \in Keys(Before(kind)[last.dest])
            /\ Before(kind)[last.dest].kv[nk] # Before(kind)[last.obj].kv[k]
    /\ \E k \in Keys(Before(kind)[last.obj]) : ~StartsWith(k, last.prefix)

\* C9: on a non-nil object AddAnnotations / AddLabels returns no error, and
\* issued again with the same entries it returns no error and leaves the
\* metadata as the first call left it.
C9_BulkAddIdempotent ==
  \A kind \in Kinds :
    last.op = AddManyOp(kind) /\ last.obj \in Obj =>
      /\ last.err = NoError
      /\ calls >= 2 => NothingChanged

\* C9's case: the second of two bulk adds with the same entries, one of them a
\* key the object holds with another value.
C9_Witness ==
  \E kind \in Kinds :
    /\ last.op = AddManyOp(kind)
    /\ last.obj \in Obj
    /\ calls = 2
    /\ \E k \in Keys(last.entries) :
         Now(kind)[last.obj].kv[k] # last.entries.kv[k]
    /\ \E k \in Keys(last.entries) :
         Now(kind)[last.obj].kv[k] = last.entries.kv[k]

\* C10: the map a bulk add, or a copy between different objects, leaves does
\* not depend on the order in which the source entries are visited, and two
\* different source keys are never copied to the same destination key.
C10_OrderIndependent ==
  \A kind \in Kinds :
    /\ last.op = AddManyOp(kind) /\ last.obj \in Obj =>
         \A order \in Orders(last.entries) :
           addEntries(last.entries, OrEmpty(Before(kind)[last.obj]), order)
             = Now(kind)[last.obj]
    /\ ( /\ last.op = CopyOp(kind) /\ last.obj \in Obj /\ last.dest \in Obj
         /\ ~Before(kind)[last.obj].nil ) =>
         LET S == Before(kind)[last.obj]
         IN /\ \A order \in Orders(S) :
                 copyWithNewPrefix(S, OrEmpty(Before(kind)[last.dest]), last.prefix,
                                   last.replacementPrefix, order)
                   = Now(kind)[last.dest]
            /\ \A k1, k2 \in { k \in Keys(S) : HasPrefix(k, last.prefix) } :
                 k1 # k2 => newKey(k1, last.prefix, last.replacementPrefix)
                              # newKey(k2, last.prefix, last.replacementPrefix)

\* C10's case: a renaming copy of two entries with different values.
C10_Witness ==
  \E kind \in Kinds :
    /\ last.op = CopyOp(kind)
    /\ last.obj \in Obj /\ last.dest \in Obj
    /\ last.prefix # last.replacementPrefix
    /\ \E k1, k2 \in Keys(Before(kind)[last.obj]) :
         /\ k1 # k2
         /\ StartsWith(k1, last.prefix) /\ StartsWith(k2, last.prefix)
         /\ Before(kind)[last.obj].kv[k1] # Before(kind)[last.obj].kv[k2]

===========================================================================
